---- MODULE Spec2Model ----
(***************************************************************************)
(* Model of ImguUnit (src/unnamed/part_000): the message-driven control    *)
(* loop of the capture pipeline, its pending / in-flight request queues,   *)
(* the delay queue that reorders poll events, and flush handling.          *)
(*                                                                         *)
(* Threads: the control thread (messageThreadLoop), the Poller thread      *)
(* (notifyPollEvent), the request submitter (completeRequest) and the      *)
(* flush caller (flush).  Each handler of the control loop is one atomic   *)
(* action: only the control thread touches the queues it mutates.          *)
(***************************************************************************)
EXTENDS Integers, Sequences, FiniteSets, TLC

\* ------------------------------------------------------------------ bounds
MaxReq == 3        \* requests submitted in one behaviour (ids 1..MaxReq)
MaxConfig == 2     \* calls of configStreams in one behaviour
MaxFlush == 1      \* calls of flush in one behaviour
MaxListeners == 1  \* calls of attachListener in one behaviour
MaxFail == 1       \* failures of worker calls in one behaviour
MaxWork == 4       \* requests + flushes + reconfigurations + exit in one behaviour
MaxExitWork == 3   \* the same budget in the shutdown specification
MaxStreams == 4    \* streams handed to one configStreams call

\* --------------------------------------------------------------- constants
PollTimeout == 3000   \* timeout handed to PollerThread::pollRequest

ReqIds == 1..MaxReq

\* status_t values; Or models "status |= x" (non-zero stays non-zero)
OK == "OK"
UNKNOWN_ERROR == "UNKNOWN_ERROR"
WORKER_ERROR == "WORKER_ERROR"
Or(s1, s2) == IF s1 = OK THEN s2 ELSE s1

\* node types in the iteration order of mConfiguredNodesPerName (a std::map
\* keyed by NodeTypes); the worker bound to a node carries the node's name,
\* "IN" is the InputFrameWorker, which has no node.
NodeOrder == <<"STILL", "VIDEO", "VF_PREVIEW", "PV_PREVIEW", "RAW", "UNKNOWN">>
WorkerNames == {"IN", "STILL", "VIDEO", "VF_PREVIEW", "PV_PREVIEW"}
HasNode(w) == w # "IN"

VARIABLES
    mq,                     \* mMessageQueue: FIFO of DeviceMessage
    mMessagesPending,       \* request ids
    mMessagesUnderwork,     \* request ids, the in-flight set
    mDelayProcessRequest,   \* request ids of deferred poll events
    mRequestToWorkMap,      \* request id -> sequence of bound workers
    mFirstRequest,
    mFlushing,
    mThreadRunning,
    mCurPipeConfig,         \* "null", "video" or "still"
    mPipeConfigs,           \* index -> [deviceWorkers, pollableWorkers, nodes]
    mListenerDeviceWorkers,
    mListeners,             \* registered ICaptureEventListener
    mErrCb,                 \* an error callback is registered
    inputStream,            \* mActiveStreams.inputStream # nullptr
    configured,             \* the last configStreams returned OK
    pipelineDepth,          \* ANDROID_REQUEST_PIPELINE_MAX_DEPTH as read
    pollArmed,              \* Poller: request ids with an outstanding wait
    pollerBlocked,          \* Poller thread waits for the reply to its send
    flushPc,                \* position of the caller of flush()
    exitPc,                 \* position of the caller of requestExitAndWait()
    nextId,                 \* id of the next request of the caller
    nConfig, nFlush,        \* calls made so far
    nFail,                  \* worker calls that failed so far
    notified,               \* request id -> kind of notification enqueued
    reqInput,               \* request id -> has input buffers
    reqError,               \* request id -> error flag (Camera3Request)
    started,                \* workers started and not stopped
    events,                 \* CAPTURE_REQUEST_DONE events delivered so far
    phaseCount,             \* <<worker, request>> -> calls per phase so far
    calls,                  \* calls made by the last step, in order
    lastMsg,                \* message handled by the last control-loop step
    lastStatus,             \* status the last handler returned
    ub,                     \* front of an empty in-flight set was read
    stageFailed,            \* requests one of whose workers failed a stage
    activeStreams,          \* the streams handed to configStreams
    mActiveStreams,         \* [blobStreams, yuvStreams, inputStream]
    mStreamNodeMapping,     \* node type -> backing stream
    mStreamListenerMapping, \* listener stream -> node type it listens to
    mapStatus               \* "none", or what mapStreamWithDeviceNode returned

vQueues == <<mMessagesPending, mMessagesUnderwork, mDelayProcessRequest,
            mRequestToWorkMap>>
vPipes == <<mCurPipeConfig, mPipeConfigs, mListenerDeviceWorkers>>
vWiring == <<mListeners, mErrCb>>
vConfig == <<inputStream, configured, pipelineDepth, nConfig>>
vFlags == <<mFirstRequest, mFlushing, mThreadRunning>>
vRequests == <<nextId, reqInput, reqError>>
vHistory == <<events, phaseCount, notified, ub, stageFailed>>
vOutput == <<calls, lastMsg, lastStatus>>

vMapper == <<activeStreams, mActiveStreams, mStreamNodeMapping,
            mStreamListenerMapping, mapStatus>>

vars == <<mq, vQueues, vPipes, vWiring, vConfig, vFlags, vRequests, vHistory, vOutput,
          pollArmed, pollerBlocked, flushPc, exitPc, nFlush, nFail, started,
          vMapper>>

\* ----------------------------------------------------------------- helpers
EmptyPipe == [deviceWorkers |-> <<>>, pollableWorkers |-> <<>>, nodes |-> <<>>]
NoMsg ==
    [id |-> "NONE", requestId |-> 0, polledDevices |-> 0, numDevices |-> 0,
     active |-> FALSE]
Range(s) == {s[i] : i \in 1..Len(s)}
CurPipe == mPipeConfigs[mCurPipeConfig]
ZeroCount == [prepareRun |-> 0, run |-> 0, postRun |-> 0]

\* requests, flushes, reconfigurations and exit requests of the behaviour so far
Work ==
    (nextId - 1) + nFlush + (IF nConfig > 1 THEN nConfig - 1 ELSE 0)
    + (IF exitPc # "idle" THEN 1 ELSE 0)

\* a step outside the control loop handles no message and makes no call
NoOutput == calls' = <<>> /\ lastMsg' = NoMsg /\ lastStatus' = OK

Call(op, w, r) == [op |-> op, worker |-> w, req |-> r]
\* op applied to every worker of ws, in order
CallsOn(op, ws, r) == [i \in 1..Len(ws) |-> Call(op, ws[i], r)]

\* phaseCount after the calls cs
RECURSIVE Bump(_, _)
Bump(pc, cs) ==
    IF cs = <<>> THEN pc
    ELSE LET c == Head(cs)
         IN  IF c.op \in {"prepareRun", "run", "postRun"}
             THEN Bump([pc EXCEPT ![<<c.worker, c.req>>][c.op] = @ + 1], Tail(cs))
             ELSE Bump(pc, Tail(cs))

\* ImguUnit::ImguUnit: the controller, its queues and its threads
ImguUnitInit ==
    /\ mq = <<>>
    /\ mMessagesPending = <<>>
    /\ mMessagesUnderwork = <<>>
    /\ mDelayProcessRequest = <<>>
    /\ mRequestToWorkMap = <<>>
    /\ mFirstRequest = TRUE
    /\ mFlushing = FALSE
    /\ mThreadRunning = TRUE
    /\ mCurPipeConfig = "null"
    /\ mPipeConfigs = [p \in {"video", "still"} |-> EmptyPipe]
    /\ mListenerDeviceWorkers = <<>>
    /\ mListeners = {}
    /\ mErrCb = FALSE
    /\ inputStream = FALSE
    /\ configured = FALSE
    /\ pipelineDepth = 1
    /\ pollArmed = {}
    /\ pollerBlocked = FALSE
    /\ flushPc = "idle"
    /\ exitPc = "idle"
    /\ nextId = 1
    /\ nConfig = 0
    /\ nFlush = 0
    /\ nFail = 0
    /\ notified = [r \in ReqIds |-> "none"]
    /\ reqInput = [r \in ReqIds |-> FALSE]
    /\ reqError = [r \in ReqIds |-> FALSE]
    /\ started = {}
    /\ events = <<>>
    /\ phaseCount = [k \in WorkerNames \X ReqIds |-> ZeroCount]
    /\ calls = <<>>
    /\ lastMsg = NoMsg
    /\ lastStatus = OK
    /\ ub = FALSE
    /\ stageFailed = {}

\* no stream has been classified or mapped yet
NoStreams == [blobStreams |-> <<>>, yuvStreams |-> <<>>, inputStream |-> FALSE]
MapperInit ==
    /\ mActiveStreams = NoStreams
    /\ mStreamNodeMapping = <<>>
    /\ mStreamListenerMapping = <<>>
    /\ mapStatus = "none"

\* ImguUnit::ImguUnit
Init ==
    /\ ImguUnitInit
    /\ activeStreams = <<>>
    /\ MapperInit


\* ----------------------------------------------------------------- messages
CompleteReqMsg(r) ==
    [id |-> "COMPLETE_REQ", requestId |-> r, polledDevices |-> 0,
     numDevices |-> 0, active |-> FALSE]
\* active: pollEvent.activeDevices # nullptr
PollMsg(r, polled, num, act) ==
    [id |-> "POLL", requestId |-> r, polledDevices |-> polled,
     numDevices |-> num, active |-> act]
FlushMsg ==
    [id |-> "FLUSH", requestId |-> 0, polledDevices |-> 0,
     numDevices |-> 0, active |-> FALSE]
ExitMsg ==
    [id |-> "EXIT", requestId |-> 0, polledDevices |-> 0,
     numDevices |-> 0, active |-> FALSE]

\* mutant: the loop replies only when the handler succeeded
ReplyOnlyOnSuccess(msg, status) ==
    /\ lastMsg' = msg
    /\ lastStatus' = status
    /\ pollerBlocked' =
         IF msg.id = "POLL" /\ status = OK THEN FALSE ELSE pollerBlocked
    /\ flushPc' =
         IF msg.id = "FLUSH" /\ flushPc = "waiting" /\ status = OK
         THEN "idle" ELSE flushPc
    /\ exitPc' = IF msg.id = "EXIT" /\ exitPc = "waiting" THEN "replied" ELSE exitPc

\* MessageQueue::reply(msg.id, status): wakes the sender that waits for id
Reply(msg, status) ==
    /\ lastMsg' = msg
    /\ lastStatus' = status
    /\ pollerBlocked' = IF msg.id = "POLL" THEN FALSE ELSE pollerBlocked
    /\ flushPc' = IF msg.id = "FLUSH" /\ flushPc = "waiting" THEN "idle" ELSE flushPc
    /\ exitPc' = IF msg.id = "EXIT" /\ exitPc = "waiting" THEN "replied" ELSE exitPc

\* ------------------------------------------------------------ configuration
\* what the platform hands to one configStreams call: the nodes the link
\* configuration opens, whether an input stream is among the streams, which
\* pipe media configurations exist, and the pipeline depth of the metadata
CfgInputs ==
    { [opened |-> {"VIDEO"}, input |-> TRUE, stillCfg |-> FALSE,
       videoCfg |-> TRUE, depth |-> 1],
      [opened |-> {"VIDEO", "VF_PREVIEW", "PV_PREVIEW", "RAW"}, input |-> FALSE,
       stillCfg |-> TRUE, videoCfg |-> FALSE, depth |-> 2],
      [opened |-> {"VIDEO", "UNKNOWN"}, input |-> FALSE, stillCfg |-> FALSE,
       videoCfg |-> FALSE, depth |-> 1],
      [opened |-> {}, input |-> FALSE, stillCfg |-> FALSE,
       videoCfg |-> FALSE, depth |-> 1] }

\* the steps of configStreams that can fail on an external collaborator
ConfigFailures ==
    {"none", "graph", "cio2", "common", "stillPipe", "videoPipe", "map",
     "advanceCfg", "workerCfg", "workerCfgLast", "poller"}

\* ImguUnit::clearWorkers
ClearedPipes == [p \in {"video", "still"} |-> EmptyPipe]

\* ImguUnit::createProcessingTasks: [status, cur, pipes, ldw, calls, cfgFailed];
\* cfgFailed: the workers whose configure() returned a failure
createProcessingTasks(in, failAt) ==
    LET ordered == SelectSeq(NodeOrder, LAMBDA n : n \in in.opened)
        outs == SelectSeq(ordered, LAMBDA n : n \in {"STILL", "VIDEO"})
        hasVf == "VF_PREVIEW" \in in.opened
        hasPv == "PV_PREVIEW" \in in.opened
        ldw0 == SelectSeq(ordered, LAMBDA n :
                    n \in {"STILL", "VIDEO", "VF_PREVIEW", "PV_PREVIEW"})
        video0 == [deviceWorkers |-> outs, pollableWorkers |-> outs, nodes |-> outs]
        still1 == IF hasPv
                  THEN [deviceWorkers |-> <<"PV_PREVIEW">> \o outs,
                        pollableWorkers |-> <<"PV_PREVIEW">> \o outs,
                        nodes |-> <<"PV_PREVIEW">> \o outs]
                  ELSE EmptyPipe
        video1 == IF hasVf
                  THEN [deviceWorkers |-> <<"VF_PREVIEW">> \o outs,
                        pollableWorkers |-> <<"VF_PREVIEW">> \o outs,
                        nodes |-> <<"VF_PREVIEW">> \o outs]
                  ELSE video0
        video2 == IF in.input
                  THEN [video1 EXCEPT !.deviceWorkers = <<"IN">> \o @]
                  ELSE video1
        ldw2 == IF in.input THEN Append(ldw0, "IN") ELSE ldw0
        pipes2 == [video |-> video2, still |-> still1]
        cur1 == IF in.videoCfg THEN "video"
                ELSE IF in.stillCfg THEN "still" ELSE "video"
        advance == (IF hasPv /\ cur1 = "video"
                    THEN <<Call("configure", "PV_PREVIEW", 0)>> ELSE <<>>)
                   \o (IF hasVf /\ cur1 = "still"
                       THEN <<Call("configure", "VF_PREVIEW", 0)>> ELSE <<>>)
        curDw == pipes2[cur1].deviceWorkers
        advFailed == IF failAt = "advanceCfg"
                     THEN {advance[i].worker : i \in 1..Len(advance)} ELSE {}
        Res(st, cur, pipes, ldw, cs, failed) ==
            [status |-> st, cur |-> cur, pipes |-> pipes, ldw |-> ldw, calls |-> cs,
             cfgFailed |-> failed]
        Fail(st, cur, pipes, ldw, cs) == Res(st, cur, pipes, ldw, cs, {})
    IN  IF failAt = "graph"
        THEN Fail(UNKNOWN_ERROR, "null", mPipeConfigs, mListenerDeviceWorkers, <<>>)
        ELSE IF failAt \in {"cio2", "common"}
        THEN Fail(UNKNOWN_ERROR, "video", ClearedPipes, <<>>, <<>>)
        ELSE IF in.stillCfg /\ failAt = "stillPipe"
        THEN Fail(UNKNOWN_ERROR, "video", ClearedPipes, <<>>, <<>>)
        ELSE IF in.videoCfg /\ failAt = "videoPipe"
        THEN Fail(UNKNOWN_ERROR, IF in.stillCfg THEN "still" ELSE "video",
                  ClearedPipes, <<>>, <<>>)
        ELSE IF in.opened = {} \/ failAt = "map"
        THEN Fail(UNKNOWN_ERROR, cur1, ClearedPipes, <<>>, <<>>)
        ELSE IF "UNKNOWN" \in in.opened
        THEN Fail(UNKNOWN_ERROR, cur1, [video |-> video0, still |-> EmptyPipe],
                  ldw0, <<>>)
        ELSE IF failAt = "workerCfg" /\ curDw # <<>>
        THEN Res(WORKER_ERROR, cur1, pipes2, ldw2,
                 advance \o <<Call("configure", curDw[1], 0)>>,
                 advFailed \cup {curDw[1]})
        ELSE IF failAt = "workerCfgLast" /\ curDw # <<>>
        THEN Res(WORKER_ERROR, cur1, pipes2, ldw2,
                 advance \o CallsOn("configure", curDw, 0),
                 advFailed \cup {curDw[Len(curDw)]})
        ELSE Res(OK, cur1, pipes2, ldw2,
                 advance \o CallsOn("configure", curDw, 0), advFailed)

\* createProcessingTasks, lines 371-447: the workers the pass constructs
\* before it returns
BuiltWorkers(in, failAt) ==
    IF \/ failAt \in {"graph", "cio2", "common", "map"}
       \/ in.stillCfg /\ failAt = "stillPipe"
       \/ in.videoCfg /\ failAt = "videoPipe"
       \/ in.opened = {}
    THEN {}
    ELSE (in.opened \cap {"STILL", "VIDEO", "VF_PREVIEW", "PV_PREVIEW"})
         \cup (IF in.input /\ "UNKNOWN" \notin in.opened THEN {"IN"} ELSE {})

\* ImguUnit::configStreams, called after the owner has attached its listeners
\* and error callback, while no message and no wait is outstanding
ConfigStreams(in, failAt) ==
    /\ nConfig < MaxConfig
    /\ nConfig > 0 => Work < MaxWork
    /\ Cardinality(mListeners) = MaxListeners /\ mErrCb
    /\ mThreadRunning
    /\ mq = <<>> /\ pollArmed = {} /\ flushPc = "idle" /\ ~pollerBlocked
    /\ LET t == createProcessingTasks(in, failAt)
           st == IF t.status # OK THEN UNKNOWN_ERROR
                 ELSE IF failAt = "poller" THEN UNKNOWN_ERROR ELSE OK
       IN  /\ mCurPipeConfig' = t.cur
           /\ mPipeConfigs' = t.pipes
           /\ mListenerDeviceWorkers' = t.ldw
           /\ calls' = t.calls
           /\ configured' = (st = OK)
           /\ lastStatus' = st
    /\ nConfig' = nConfig + 1
    /\ inputStream' = in.input
    /\ pipelineDepth' = in.depth
    /\ mFirstRequest' = TRUE
    /\ mFlushing' = FALSE
    /\ lastMsg' = NoMsg
    /\ UNCHANGED exitPc
    /\ UNCHANGED vMapper
    /\ UNCHANGED <<mq, vQueues, vWiring, mThreadRunning, vRequests, vHistory,
                   pollArmed, pollerBlocked, flushPc, nFlush, nFail, started>>

\* ImguUnit::attachListener
attachListener ==
    /\ Cardinality(mListeners) < MaxListeners
    /\ nConfig = 0
    /\ mListeners' = mListeners \cup {Cardinality(mListeners) + 1}
    /\ NoOutput
    /\ UNCHANGED exitPc
    /\ UNCHANGED vMapper
    /\ UNCHANGED <<mq, vQueues, vPipes, mErrCb, vConfig, vFlags, vRequests,
                   vHistory, pollArmed, pollerBlocked, flushPc, nFlush, nFail,
                   started>>

\* registration of the error callback read by startProcessing (mErrCb)
registerErrorCallback ==
    /\ ~mErrCb
    /\ nConfig = 0
    /\ mErrCb' = TRUE
    /\ NoOutput
    /\ UNCHANGED exitPc
    /\ UNCHANGED vMapper
    /\ UNCHANGED <<mq, vQueues, vPipes, mListeners, vConfig, vFlags, vRequests,
                   vHistory, pollArmed, pollerBlocked, flushPc, nFlush, nFail,
                   started>>

\* ImguUnit::completeRequest: the caller hands over its next request
completeRequest(hasInput) ==
    /\ configured
    /\ mThreadRunning
    /\ nextId <= MaxReq
    /\ Work < MaxWork
    /\ hasInput => inputStream
    /\ mq' = Append(mq, CompleteReqMsg(nextId))
    /\ reqInput' = [reqInput EXCEPT ![nextId] = hasInput]
    /\ nextId' = nextId + 1
    /\ NoOutput
    /\ UNCHANGED exitPc
    /\ UNCHANGED vMapper
    /\ UNCHANGED <<vQueues, vPipes, vWiring, vConfig, vFlags, reqError, vHistory,
                   pollArmed, pollerBlocked, flushPc, nFlush, nFail, started>>

\* ------------------------------------------------------------- control loop
\* the worker and node lists the handlers read through mCurPipeConfig
CurDeviceWorkers ==
    IF mCurPipeConfig = "null" THEN <<>> ELSE CurPipe.deviceWorkers
CurPollableWorkers ==
    IF mCurPipeConfig = "null" THEN <<>> ELSE CurPipe.pollableWorkers
SetCurNodes(ns) ==
    IF mCurPipeConfig = "null" THEN mPipeConfigs
    ELSE [mPipeConfigs EXCEPT ![mCurPipeConfig].nodes = ns]

\* index of the first worker without a node, 0 if there is none
RECURSIVE FirstNodeless(_, _)
FirstNodeless(ws, i) ==
    IF i > Len(ws) THEN 0
    ELSE IF ~HasNode(ws[i]) THEN i
    ELSE FirstNodeless(ws, i + 1)

\* the answers of needPolling() tried for the pollable workers ws: every
\* worker, none, or only the first
NeedPollingChoices(ws) ==
    {Range(ws), {}} \cup (IF ws = <<>> THEN {} ELSE {{ws[1]}})

\* mutant: kickstart goes on starting the workers after a failure
kickstartCallsAll(dw, startFail) == Len(dw)

\* ImguUnit::kickstart: the number of startWorker calls made on the workers dw
\* when the call on dw[startFail] fails (0: none fails)
kickstartCalls(dw, startFail) == IF startFail > 0 THEN startFail ELSE Len(dw)

\* mutant: a successful kickstart leaves mFirstRequest set
FirstRequestAfterKickstartKept(first, kickFails) == first

\* kickstart, lines 663-671: mFirstRequest is cleared unless a startWorker
\* failed
FirstRequestAfterKickstart(first, kickFails) == first /\ kickFails

\* mutant: the workers behind the input worker are prepared as well
PrepareCountAll(inIdx, n) == n

\* processNextRequest, lines 620-642: the number of workers, of n, that get
\* prepareRun when the input worker is at inIdx (0: no input worker stops
\* the loop)
PrepareCount(inIdx, n) == IF inIdx > 0 THEN inIdx ELSE n

\* mutant: no wait is asked for after a failed admission
IssueWaitOnSuccess(nodes, status) == nodes # <<>> /\ status = OK

\* handleMessageCompleteReq, line 567: pollRequest is called for a non-empty
\* node list, whatever processNextRequest returned
IssueWait(nodes, status) == nodes # <<>>

\* mutant: the admitted request stays in the pending queue
PopPendingKept(pend) == pend

\* processNextRequest, line 585: the first pending request is erased
PopPending(pend) == Tail(pend)

\* mutant: the request is put in front of the in-flight set
PushUnderworkFront(under, req) == <<req>> \o under

\* processNextRequest, line 596: the request joins the in-flight set
PushUnderwork(under, req) == Append(under, req)

\* ImguUnit::handleMessageCompleteReq with processNextRequest and kickstart.
\* startFail: index of the worker whose startWorker fails (0: none);
\* np: the pollable workers whose needPolling() is true;
\* prepFail: some prepareRun returned a failure.
handleMessageCompleteReq(startFail, np, prepFail) ==
    /\ mThreadRunning
    /\ mq # <<>>
    /\ Head(mq).id = "COMPLETE_REQ"
    /\ LET msg == Head(mq)
           pend1 == Append(mMessagesPending, msg.requestId)
           req == Head(pend1)
           dw == CurDeviceWorkers
           kickFails == mFirstRequest /\ startFail > 0
           nStart == IF ~mFirstRequest THEN 0 ELSE kickstartCalls(dw, startFail)
           startCalls == CallsOn("startWorker", SubSeq(dw, 1, nStart), req)
           nStarted == IF kickFails THEN startFail - 1 ELSE nStart
           inIdx == IF reqInput[req] THEN FirstNodeless(dw, 1) ELSE 0
           nPrep == PrepareCount(inIdx, Len(dw))
           prepCalls == CallsOn("prepareRun", SubSeq(dw, 1, nPrep), req)
           bound == IF inIdx > 0 THEN <<dw[inIdx]>>
                    ELSE SelectSeq(CurPollableWorkers, LAMBDA w : w \in np)
           nodes == IF inIdx > 0 \/ reqInput[req] THEN <<>> ELSE bound
           status == IF kickFails THEN WORKER_ERROR
                     ELSE IF prepFail THEN WORKER_ERROR ELSE OK
           synthetic == ~kickFails /\ inIdx > 0
       IN  /\ startFail \in (IF mFirstRequest THEN 0..Len(dw) ELSE {0})
           /\ np \in (IF kickFails \/ inIdx > 0 THEN {{}}
                      ELSE NeedPollingChoices(CurPollableWorkers))
           /\ prepFail => (~kickFails /\ nPrep > 0)
           /\ (kickFails \/ prepFail) => nFail < MaxFail
           /\ nFail' = IF kickFails \/ prepFail THEN nFail + 1 ELSE nFail
           /\ mMessagesPending' = PopPending(pend1)
           /\ mMessagesUnderwork' = PushUnderwork(mMessagesUnderwork, req)
           /\ started' = started \cup {dw[i] : i \in 1..nStarted}
           /\ mFirstRequest' = FirstRequestAfterKickstart(mFirstRequest, kickFails)
           /\ mRequestToWorkMap' =
                IF kickFails THEN mRequestToWorkMap
                ELSE (req :> bound) @@ mRequestToWorkMap
           /\ mPipeConfigs' = SetCurNodes(IF kickFails THEN <<>> ELSE nodes)
           /\ reqError' = [reqError EXCEPT
                            ![msg.requestId] = @ \/ status # OK]
           /\ pollArmed' =
                IF ~kickFails /\ IssueWait(nodes, status)
                THEN pollArmed \cup {[reqId |-> msg.requestId,
                                      timeout |-> PollTimeout, nodes |-> nodes]}
                ELSE pollArmed
           /\ mq' = Tail(mq) \o (IF synthetic THEN <<PollMsg(req, 0, 0, FALSE)>>
                                 ELSE <<>>)
           /\ notified' = IF synthetic
                          THEN [notified EXCEPT ![req] = "synthetic"]
                          ELSE notified
           /\ calls' = startCalls \o (IF kickFails THEN <<>> ELSE prepCalls)
           /\ phaseCount' = Bump(phaseCount, IF kickFails THEN <<>> ELSE prepCalls)
           /\ Reply(msg, status)
    /\ UNCHANGED vMapper
    /\ UNCHANGED <<mDelayProcessRequest, mFlushing, mThreadRunning, mCurPipeConfig,
                   mListenerDeviceWorkers, vWiring, vConfig, nextId, reqInput,
                   events, ub, stageFailed, nFlush>>

\* number of leading entries of dq that are startId, startId + 1, ...
RECURSIVE DelayMatch(_, _)
DelayMatch(dq, startId) ==
    IF dq # <<>> /\ Head(dq) = startId
    THEN 1 + DelayMatch(Tail(dq), startId + 1)
    ELSE 0

\* startProcessing, lines 718-732: [num |-> processReqNum, dq |-> queue left]
DrainDelayQueue(dq, reqId) ==
    LET i == DelayMatch(dq, reqId + 1)
    IN  [num |-> 1 + i, dq |-> SubSeq(dq, i + 1, Len(dq))]

\* mutant: an early poll event is forgotten
DeferPollEventLost(dq, reqId) == dq

\* startProcessing, line 710: a poll event ahead of the expected one is kept
DeferPollEvent(dq, reqId) == Append(dq, reqId)

\* mutant: a stale poll event is taken for the expected one
OrderingViolationIgnored(front, reqId) == FALSE

\* startProcessing, line 712: the poll event is older than the expected one
OrderingViolation(front, reqId) == front > reqId

\* mutant: the in-flight set is not tested before its front is read
UnderworkEmptyUnchecked(under) == FALSE

\* startProcessing, line 697: mMessagesUnderwork.empty()
UnderworkEmpty(under) == under = <<>>

\* startProcessing, line 692
DeviceError(msg) == msg.polledDevices > 0 /\ ~msg.active

\* mutant: a device error retires only the batch of the delay queue
ProcessReqNumNoDrain(num, errPath, under) == num

\* startProcessing, line 743: a device error drains the whole in-flight set
ProcessReqNum(num, errPath, under) == IF errPath THEN Len(under) ELSE num

\* the workers bound to request r (operator[] of the map makes an empty entry)
BoundWorkers(r) ==
    IF r \in DOMAIN mRequestToWorkMap THEN mRequestToWorkMap[r] ELSE <<>>

\* mutant: every event of a batch carries the id of the poll event
DoneEventOfPoll(r, err) ==
    [reqId |-> Head(mq).requestId, error |-> err, to |-> mListeners]

\* startProcessing, lines 773-778: the event every listener is handed
DoneEvent(r, err) == [reqId |-> r, error |-> err, to |-> mListeners]

\* mutant: the third loop calls run() again instead of postRun()
RetireCallsRunTwice(r) ==
    CallsOn("asyncPollDone", BoundWorkers(r), r)
    \o CallsOn("run", BoundWorkers(r), r)
    \o CallsOn("run", BoundWorkers(r), r)
    \o <<Call("notifyCaptureEvent", "", r)>>

\* startProcessing, lines 750-778, for one request: the calls in order
RetireCalls(r) ==
    CallsOn("asyncPollDone", BoundWorkers(r), r)
    \o CallsOn("run", BoundWorkers(r), r)
    \o CallsOn("postRun", BoundWorkers(r), r)
    \o <<Call("notifyCaptureEvent", "", r)>>

\* mutant: each phase is run for the whole batch before the next phase
BatchCallsPhaseMajor(batch) ==
    LET Phase(op) ==
            [i \in 1..Len(batch) |->
                IF op = "notifyCaptureEvent"
                THEN <<Call(op, "", batch[i])>>
                ELSE CallsOn(op, BoundWorkers(batch[i]), batch[i])]
        Flat(ss) ==
            IF Len(ss) = 0 THEN <<>>
            ELSE IF Len(ss) = 1 THEN ss[1]
            ELSE IF Len(ss) = 2 THEN ss[1] \o ss[2]
            ELSE ss[1] \o ss[2] \o ss[3]
    IN  Flat(Phase("asyncPollDone")) \o Flat(Phase("run"))
        \o Flat(Phase("postRun")) \o Flat(Phase("notifyCaptureEvent"))

\* startProcessing, lines 746-781: the calls of the drain loop over a batch
RECURSIVE BatchCalls(_)
BatchCalls(batch) ==
    IF batch = <<>> THEN <<>>
    ELSE RetireCalls(Head(batch)) \o BatchCalls(Tail(batch))

\* startProcessing, line 768: the error flag of the i-th request of a batch;
\* status is not reset between the requests of a batch
BatchError(i, firstFail, deviceError) ==
    deviceError \/ (firstFail > 0 /\ firstFail <= i)

\* startProcessing, lines 734-744: what a device error does before the drain
DeviceErrorCalls(reqId) ==
    CallsOn("deviceError", CurDeviceWorkers, reqId)
    \o (IF mErrCb THEN <<Call("errCb", "", reqId)>> ELSE <<>>)
    \o <<Call("pollerFlush", "", reqId)>>

\* ImguUnit::handleMessagePoll with startProcessing.
\* firstFail: position in the batch of the first request one of whose
\* workers returns a failure from asyncPollDone, run or postRun (0: none).
handleMessagePoll(firstFail) ==
    /\ mThreadRunning
    /\ mq # <<>>
    /\ Head(mq).id = "POLL"
    /\ LET msg == Head(mq)
           reqId == msg.requestId
           under == mMessagesUnderwork
       IN  IF UnderworkEmpty(under) THEN
               /\ firstFail = 0
               /\ calls' = <<>>
               /\ Reply(msg, OK)
               /\ UNCHANGED <<vQueues, reqError, vHistory, pollArmed, nFail>>
           ELSE IF under = <<>> THEN
               \* line 700 reads the front of an empty deque: undefined; the
               \* read is recorded and the handler is followed no further
               /\ firstFail = 0
               /\ calls' = <<>>
               /\ ub' = TRUE
               /\ Reply(msg, UNKNOWN_ERROR)
               /\ UNCHANGED <<vQueues, reqError, events, phaseCount, notified,
                              stageFailed, pollArmed, nFail>>
           ELSE IF Head(under) < reqId THEN
               /\ firstFail = 0
               /\ mDelayProcessRequest' = DeferPollEvent(mDelayProcessRequest, reqId)
               /\ calls' = <<>>
               /\ Reply(msg, OK)
               /\ UNCHANGED <<mMessagesPending, mMessagesUnderwork,
                              mRequestToWorkMap, reqError, vHistory, pollArmed,
                              nFail>>
           ELSE IF OrderingViolation(Head(under), reqId) THEN
               /\ firstFail = 0
               /\ calls' = <<>>
               /\ Reply(msg, UNKNOWN_ERROR)
               /\ UNCHANGED <<vQueues, reqError, vHistory, pollArmed, nFail>>
           ELSE
               LET d == DrainDelayQueue(mDelayProcessRequest, reqId)
                   errPath == DeviceError(msg) /\ ~reqInput[Head(under)]
                   processReqNum == ProcessReqNum(d.num, errPath, under)
                   n == IF processReqNum > Len(under) THEN Len(under)
                        ELSE processReqNum
                   batch == SubSeq(under, 1, n)
                   retired == {batch[i] : i \in 1..n}
               IN  /\ firstFail \in 0..n
                   /\ firstFail > 0 =>
                        (BoundWorkers(batch[firstFail]) # <<>> /\ nFail < MaxFail)
                   /\ nFail' = IF firstFail > 0 THEN nFail + 1 ELSE nFail
                   /\ mDelayProcessRequest' = d.dq
                   /\ pollArmed' = IF errPath THEN {} ELSE pollArmed
                   /\ ub' = (ub \/ processReqNum > Len(under))
                   /\ stageFailed' = stageFailed \cup
                        (IF firstFail > 0 THEN {batch[firstFail]} ELSE {})
                   /\ reqError' =
                        [r \in ReqIds |->
                            reqError[r] \/
                            \E i \in 1..n : batch[i] = r
                                /\ BatchError(i, firstFail, DeviceError(msg))]
                   /\ events' = events \o
                        [i \in 1..n |->
                            DoneEvent(batch[i],
                                reqError[batch[i]]
                                \/ BatchError(i, firstFail, DeviceError(msg)))]
                   /\ mRequestToWorkMap' =
                        [r \in DOMAIN mRequestToWorkMap \ retired |->
                            mRequestToWorkMap[r]]
                   /\ mMessagesUnderwork' = SubSeq(under, n + 1, Len(under))
                   /\ calls' = (IF errPath THEN DeviceErrorCalls(reqId) ELSE <<>>)
                               \o BatchCalls(batch)
                   /\ phaseCount' = Bump(phaseCount, BatchCalls(batch))
                   /\ Reply(msg, IF firstFail > 0 THEN WORKER_ERROR ELSE OK)
                   /\ UNCHANGED <<mMessagesPending, notified>>
    /\ mq' = Tail(mq)
    /\ UNCHANGED vMapper
    /\ UNCHANGED <<vPipes, vWiring, vConfig, vFlags, nextId, reqInput, nFlush,
                   started>>

\* mutant: the workers behind a failing stopWorker are stopped as well
StopCallsAll(dw, stopFail) == Len(dw)

\* handleMessageFlush, lines 952-960: the number of stopWorker calls made on
\* the workers dw when the call on dw[stopFail] fails (0: none fails)
StopCalls(dw, stopFail) == IF stopFail > 0 THEN stopFail ELSE Len(dw)

\* ImguUnit::handleMessageFlush.
\* stopFail: index of the worker whose stopWorker fails (0: none).
handleMessageFlush(stopFail) ==
    /\ mThreadRunning
    /\ mq # <<>>
    /\ Head(mq).id = "FLUSH"
    /\ LET msg == Head(mq)
           dw == CurDeviceWorkers
           nStop == StopCalls(dw, stopFail)
           nStopped == IF stopFail > 0 THEN stopFail - 1 ELSE Len(dw)
       IN  /\ stopFail \in 0..Len(dw)
           /\ stopFail > 0 => nFail < MaxFail
           /\ nFail' = IF stopFail > 0 THEN nFail + 1 ELSE nFail
           /\ pollArmed' = {}
           /\ started' = started \ {dw[i] : i \in 1..nStopped}
           /\ calls' = <<Call("pollerFlush", "", 0)>>
                       \o CallsOn("stopWorker", SubSeq(dw, 1, nStop), 0)
           /\ mPipeConfigs' = IF stopFail > 0 THEN mPipeConfigs ELSE ClearedPipes
           /\ mListenerDeviceWorkers' =
                IF stopFail > 0 THEN mListenerDeviceWorkers ELSE <<>>
           /\ Reply(msg, IF stopFail > 0 THEN WORKER_ERROR ELSE OK)
    /\ mq' = Tail(mq)
    /\ UNCHANGED vMapper
    /\ UNCHANGED <<vQueues, mCurPipeConfig, vWiring, vConfig, vFlags, vRequests,
                   vHistory, nFlush>>

\* mutant: the exit handler leaves the loop running
ThreadRunningAfterExitKept == TRUE

\* handleMessageExit, line 912: mThreadRunning = false
ThreadRunningAfterExit == FALSE

\* ImguUnit::handleMessageExit; the loop replies and then leaves its while
handleMessageExit ==
    /\ mThreadRunning
    /\ mq # <<>>
    /\ Head(mq).id = "EXIT"
    /\ mThreadRunning' = ThreadRunningAfterExit
    /\ calls' = <<>>
    /\ Reply(Head(mq), OK)
    /\ mq' = Tail(mq)
    /\ UNCHANGED vMapper
    /\ UNCHANGED <<vQueues, vPipes, vWiring, vConfig, mFirstRequest, mFlushing,
                   vRequests, vHistory, pollArmed, nFlush, nFail, started>>

\* ------------------------------------------------------------ other threads
\* ImguUnit::requestExitAndWait, line 922: the exit message is sent and its
\* reply awaited
requestExitAndWait ==
    /\ exitPc = "idle"
    /\ mThreadRunning
    /\ Work < MaxWork
    /\ mq' = Append(mq, ExitMsg)
    /\ exitPc' = "waiting"
    /\ calls' = <<>> /\ lastMsg' = NoMsg /\ lastStatus' = OK
    /\ UNCHANGED vMapper
    /\ UNCHANGED <<vQueues, vPipes, vWiring, vConfig, vFlags, vRequests, vHistory,
                   pollArmed, pollerBlocked, flushPc, nFlush, nFail, started>>

\* ImguUnit::requestExitAndWait, line 923: after the reply the caller joins
\* the message thread, which has left messageThreadLoop
exitJoin ==
    /\ exitPc = "replied"
    /\ ~mThreadRunning
    /\ exitPc' = "done"
    /\ calls' = <<>> /\ lastMsg' = NoMsg /\ lastStatus' = OK
    /\ UNCHANGED vMapper
    /\ UNCHANGED <<mq, vQueues, vPipes, vWiring, vConfig, vFlags, vRequests,
                   vHistory, pollArmed, pollerBlocked, flushPc, nFlush, nFail,
                   started>>

\* ImguUnit::notifyPollEvent, POLL_EVENT_ID_EVENT with every polled device
\* active: under mFlushMutex, dropped while flushing, else sent and the reply
\* to MESSAGE_ID_POLL awaited
notifyPollEventReady(p) ==
    /\ p \in pollArmed
    /\ ~pollerBlocked
    /\ pollArmed' = pollArmed \ {p}
    /\ IF mFlushing
       THEN /\ notified' = [notified EXCEPT ![p.reqId] = "dropped"]
            /\ UNCHANGED <<mq, pollerBlocked>>
       ELSE /\ mq' = Append(mq, PollMsg(p.reqId, Len(p.nodes), Len(p.nodes), TRUE))
            /\ notified' = [notified EXCEPT ![p.reqId] = "ready"]
            /\ pollerBlocked' = TRUE
    /\ NoOutput
    /\ UNCHANGED exitPc
    /\ UNCHANGED vMapper
    /\ UNCHANGED <<vQueues, vPipes, vWiring, vConfig, vFlags, vRequests, events,
                   phaseCount, ub, stageFailed, flushPc, nFlush, nFail, started>>

\* ImguUnit::notifyPollEvent, POLL_EVENT_ID_ERROR (poll failure or timeout):
\* sent without the lock, without looking at mFlushing, no reply awaited
notifyPollEventError(p) ==
    /\ p \in pollArmed
    /\ ~pollerBlocked
    /\ pollArmed' = pollArmed \ {p}
    /\ mq' = Append(mq, PollMsg(p.reqId, Len(p.nodes), 0, FALSE))
    /\ notified' = [notified EXCEPT ![p.reqId] = "error"]
    /\ NoOutput
    /\ UNCHANGED exitPc
    /\ UNCHANGED vMapper
    /\ UNCHANGED <<vQueues, vPipes, vWiring, vConfig, vFlags, vRequests, events,
                   phaseCount, ub, stageFailed, pollerBlocked, flushPc, nFlush, nFail,
                   started>>

\* ImguUnit::flush, lines 934-937: the flag is set under mFlushMutex, which
\* the Poller thread holds while it waits for the reply to its message
flushSetFlag ==
    /\ flushPc = "idle"
    /\ nFlush < MaxFlush
    /\ Work < MaxWork
    /\ mThreadRunning
    /\ mCurPipeConfig # "null"
    /\ ~pollerBlocked
    /\ mFlushing' = TRUE
    /\ flushPc' = "flagged"
    /\ nFlush' = nFlush + 1
    /\ NoOutput
    /\ UNCHANGED exitPc
    /\ UNCHANGED vMapper
    /\ UNCHANGED <<mq, vQueues, vPipes, vWiring, vConfig, mFirstRequest,
                   mThreadRunning, vRequests, vHistory, pollArmed, pollerBlocked,
                   nFail, started>>

\* ImguUnit::flush, line 939: mMessageQueue.remove(MESSAGE_ID_POLL)
flushRemove ==
    /\ flushPc = "flagged"
    /\ mq' = SelectSeq(mq, LAMBDA m : m.id # "POLL")
    /\ flushPc' = "removed"
    /\ NoOutput
    /\ UNCHANGED exitPc
    /\ UNCHANGED vMapper
    /\ UNCHANGED <<vQueues, vPipes, vWiring, vConfig, vFlags, vRequests, vHistory,
                   pollArmed, pollerBlocked, nFlush, nFail, started>>

\* ImguUnit::flush, line 941: the flush message is sent and its reply awaited
flushSend ==
    /\ flushPc = "removed"
    /\ mq' = Append(mq, FlushMsg)
    /\ flushPc' = "waiting"
    /\ NoOutput
    /\ UNCHANGED exitPc
    /\ UNCHANGED vMapper
    /\ UNCHANGED <<vQueues, vPipes, vWiring, vConfig, vFlags, vRequests, vHistory,
                   pollArmed, pollerBlocked, nFlush, nFail, started>>

\* ------------------------------------------------------------ stream mapping
\* The streams of one configStreams call.  A stream is a camera3_stream_t:
\* id stands for its address, type for stream_type, format for the pixel
\* format.  Every two different ratios of StreamSizes differ by more than 0.4
\* and equal ratios are computed from equal quotients, so float arithmetic and
\* the exact arithmetic below take the same branches.
StreamSizes == {<<4000, 3000>>, <<3000, 4000>>, <<1920, 1080>>, <<640, 480>>}
StreamChoices ==
    {[type |-> "OUTPUT", format |-> f, width |-> wh[1], height |-> wh[2]] :
        f \in {"BLOB", "YCbCr_420_888", "IMPLEMENTATION_DEFINED"},
        wh \in StreamSizes}
    \cup {[type |-> "INPUT", format |-> "IMPLEMENTATION_DEFINED",
           width |-> 1920, height |-> 1080],
          [type |-> "OUTPUT", format |-> "RAW16", width |-> 1920, height |-> 1080]}
ActiveStreamSets ==
    {[i \in DOMAIN f |-> [id |-> i] @@ f[i]] :
        f \in UNION {[1..n -> StreamChoices] : n \in 0..MaxStreams}}

\* configStreams, lines 119-147: the streams sorted into blob and yuv, an
\* input stream remembered and skipped, other formats dropped
RECURSIVE ClassifyStreams(_, _)
ClassifyStreams(streams, acc) ==
    IF streams = <<>> THEN acc
    ELSE LET st == Head(streams)
             isIn == st.type \in {"INPUT", "BIDIRECTIONAL"}
             acc1 == IF isIn THEN [acc EXCEPT !.inputStream = TRUE] ELSE acc
             acc2 ==
                IF st.type = "INPUT" THEN acc1
                ELSE IF st.format = "BLOB"
                THEN [acc1 EXCEPT !.blobStreams = Append(@, st)]
                ELSE IF st.format = "YCbCr_420_888"
                THEN [acc1 EXCEPT !.yuvStreams = Append(@, st)]
                ELSE IF st.format = "IMPLEMENTATION_DEFINED"
                THEN [acc1 EXCEPT !.yuvStreams = <<st>> \o @]
                ELSE acc1
         IN  ClassifyStreams(Tail(streams), acc2)

\* lines 165-168
streamArea(st) == st.width * st.height
streamSizeGT(s1, s2) == streamArea(s1) > streamArea(s2)
streamSizeEQ(s1, s2) == streamArea(s1) = streamArea(s2)

\* mutant: on equal areas the second stream is taken
streamSizeGEStrict(s1, s2) == streamArea(s1) > streamArea(s2)

streamSizeGE(s1, s2) == streamArea(s1) >= streamArea(s2)

RECURSIVE GCD(_, _)
GCD(a, b) == IF b = 0 THEN a ELSE GCD(b, a % b)
Abs(x) == IF x < 0 THEN -x ELSE x
\* streamSizeRatio as a reduced fraction [num, den]
streamSizeRatio(st) ==
    LET g == GCD(st.width, st.height)
    IN  [num |-> st.width \div g, den |-> st.height \div g]
\* fabs(r1 - r2) as a fraction
RatioDiff(r1, r2) ==
    [num |-> Abs(r1.num * r2.den - r2.num * r1.den), den |-> r1.den * r2.den]
\* line 243: fabs(d1 - d2) <= 0.000001
RatioDiffTie(d1, d2) ==
    Abs(d1.num * d2.den - d2.num * d1.den) <= (d1.den * d2.den) \div 1000000
\* line 252: d1 < d2
RatioDiffLess(d1, d2) == d1.num * d2.den < d2.num * d1.den

\* line 177
TooManyBlobs(blobNum) == blobNum > 1

\* mutant: three or more streams are taken without a blob stream
ManyStreamsCaseAnyBlob(blobNum, yuvNum) == yuvNum >= 2

\* line 207: the case of three or more streams
ManyStreamsCase(blobNum, yuvNum) == yuvNum >= 2 /\ blobNum = 1

\* lines 185-188: the blob stream first, then the yuv streams
AvailableStreams(as) ==
    (IF Len(as.blobStreams) > 0 THEN <<as.blobStreams[1]>> ELSE <<>>)
    \o as.yuvStreams

\* lines 208-213: index of the first stream of maximal area
RECURSIVE MaxSizeIdx(_, _, _)
MaxSizeIdx(avail, i, cur) ==
    IF i > Len(avail) THEN cur
    ELSE MaxSizeIdx(avail, i + 1,
                    IF streamSizeGT(avail[i], avail[cur]) THEN i ELSE cur)

\* lines 215-227: the preview index (0: not set)
RECURSIVE PreviewIdx(_, _, _, _)
PreviewIdx(avail, i, v, pv) ==
    IF i > Len(avail) THEN pv
    ELSE IF i = v THEN PreviewIdx(avail, i + 1, v, pv)
    ELSE IF pv = 0 THEN PreviewIdx(avail, i + 1, v, i)
    ELSE IF streamSizeEQ(avail[i], avail[v]) THEN PreviewIdx(avail, i + 1, v, pv)
    ELSE IF streamSizeGT(avail[i], avail[pv]) THEN PreviewIdx(avail, i + 1, v, i)
    ELSE PreviewIdx(avail, i + 1, v, pv)

\* mutant: the preview stream is also made a listener
IsListenerNotVideo(i, v, pv) == i # v

\* line 237
IsListener(i, v, pv) == i # v /\ i # pv

\* lines 238-262: the node the listener stream l listens to
ListenerNode(l, video, preview) ==
    LET lp == RatioDiff(streamSizeRatio(l), streamSizeRatio(preview))
        lv == RatioDiff(streamSizeRatio(l), streamSizeRatio(video))
    IN  IF RatioDiffTie(lp, lv)
        THEN IF streamSizeEQ(l, video) THEN "VIDEO"
             ELSE IF streamSizeEQ(l, preview) THEN "VF_PREVIEW"
             ELSE IF streamSizeGT(preview, video) THEN "VF_PREVIEW"
             ELSE "VIDEO"
        ELSE IF RatioDiffLess(lp, lv)
        THEN IF streamSizeGE(preview, l) THEN "VF_PREVIEW" ELSE "VIDEO"
        ELSE IF streamSizeGE(video, l) THEN "VIDEO" ELSE "VF_PREVIEW"

\* ImguUnit::mapStreamWithDeviceNode on the classified streams as:
\* [status, nodes, listeners]; a refusal for too many blob streams leaves the
\* two maps as they were (oldNodes, oldListeners)
mapStreamWithDeviceNode(as, oldNodes, oldListeners) ==
    LET blobNum == Len(as.blobStreams)
        yuvNum == Len(as.yuvStreams)
        streamNum == blobNum + yuvNum
        avail == AvailableStreams(as)
        Result(st, v, pv) ==
            LET ls == {i \in 1..Len(avail) : IsListener(i, v, pv)}
            IN  [status |-> st,
                 nodes |->
                    [n \in (IF pv > 0 THEN {"VF_PREVIEW", "PV_PREVIEW"} ELSE {})
                           \cup {"VIDEO"} |->
                        IF n = "VIDEO" THEN avail[v] ELSE avail[pv]],
                 listeners |->
                    IF streamNum <= 2 THEN <<>>
                    ELSE [l \in {avail[i] : i \in ls} |->
                            ListenerNode(l, avail[v], avail[pv])]]
    IN  IF TooManyBlobs(blobNum)
        THEN [status |-> "BAD_VALUE", nodes |-> oldNodes, listeners |-> oldListeners]
        ELSE IF streamNum = 1 THEN Result(OK, 1, 0)
        ELSE IF streamNum = 2
        THEN LET v == IF streamSizeGE(avail[1], avail[2]) THEN 1 ELSE 2
             IN  Result(OK, v, IF v = 2 THEN 1 ELSE 2)
        ELSE IF ManyStreamsCase(blobNum, yuvNum)
        THEN LET v == MaxSizeIdx(avail, 1, 1)
                 p0 == PreviewIdx(avail, 1, v, 0)
                 pv == IF p0 = 0 THEN 2 ELSE p0
             IN  Result(OK, v, pv)
        ELSE [status |-> UNKNOWN_ERROR, nodes |-> <<>>, listeners |-> <<>>]

\* configStreams, lines 109-147, on the streams it is handed
classifyStreams ==
    /\ mapStatus = "none"
    /\ mActiveStreams = NoStreams
    /\ mActiveStreams' = ClassifyStreams(activeStreams, NoStreams)
    /\ mapStatus' = "classified"
    /\ UNCHANGED <<activeStreams, mStreamNodeMapping, mStreamListenerMapping>>
    /\ UNCHANGED <<mq, vQueues, vPipes, vWiring, vConfig, vFlags, vRequests,
                   vHistory, vOutput, pollArmed, pollerBlocked, flushPc, exitPc,
                   nFlush, nFail, started>>

\* createProcessingTasks calling mapStreamWithDeviceNode
mapStreams ==
    /\ mapStatus = "classified"
    /\ LET r == mapStreamWithDeviceNode(mActiveStreams, mStreamNodeMapping,
                                        mStreamListenerMapping)
       IN  /\ mapStatus' = r.status
           /\ mStreamNodeMapping' = r.nodes
           /\ mStreamListenerMapping' = r.listeners
    /\ UNCHANGED <<activeStreams, mActiveStreams>>
    /\ UNCHANGED <<mq, vQueues, vPipes, vWiring, vConfig, vFlags, vRequests,
                   vHistory, vOutput, pollArmed, pollerBlocked, flushPc, exitPc,
                   nFlush, nFail, started>>

\* ------------------------------------------------------------ specification
Next ==
    \/ \E in \in CfgInputs, f \in ConfigFailures : ConfigStreams(in, f)
    \/ attachListener
    \/ registerErrorCallback
    \/ \E hasInput \in BOOLEAN : completeRequest(hasInput)
    \/ \E sf \in 0..Len(CurDeviceWorkers),
          np \in NeedPollingChoices(CurPollableWorkers), pf \in BOOLEAN :
          handleMessageCompleteReq(sf, np, pf)
    \/ \E ff \in 0..Len(mMessagesUnderwork) : handleMessagePoll(ff)
    \/ \E sf \in 0..Len(CurDeviceWorkers) : handleMessageFlush(sf)
    \/ handleMessageExit
    \/ \E p \in pollArmed : notifyPollEventReady(p)
    \/ \E p \in pollArmed : notifyPollEventError(p)
    \/ flushSetFlag
    \/ flushRemove
    \/ flushSend
    \/ requestExitAndWait
    \/ exitJoin

Spec == Init /\ [][Next]_vars

\* The stream mapping of configStreams on every stream set of ActiveStreamSets
MapInit ==
    /\ ImguUnitInit
    /\ activeStreams \in ActiveStreamSets
    /\ MapperInit
MapNext ==
    \/ classifyStreams
    \/ mapStreams
MapSpec == MapInit /\ [][MapNext]_vars

\* one iteration of messageThreadLoop
ControlStep ==
    \/ \E sf \in 0..Len(CurDeviceWorkers),
          np \in NeedPollingChoices(CurPollableWorkers), pf \in BOOLEAN :
          handleMessageCompleteReq(sf, np, pf)
    \/ \E ff \in 0..Len(mMessagesUnderwork) : handleMessagePoll(ff)
    \/ \E sf \in 0..Len(CurDeviceWorkers) : handleMessageFlush(sf)
    \/ handleMessageExit

\* Shutdown: one configuration, at most MaxExitWork requests, flushes and exit
\* requests; the control thread is scheduled fairly and the join of a thread
\* that has left its loop returns.
ExitNext ==
    \/ nConfig = 0 /\ \E in \in CfgInputs, f \in ConfigFailures : ConfigStreams(in, f)
    \/ attachListener
    \/ registerErrorCallback
    \/ Work < MaxExitWork /\ \E hasInput \in BOOLEAN : completeRequest(hasInput)
    \/ \E sf \in 0..Len(CurDeviceWorkers),
          np \in NeedPollingChoices(CurPollableWorkers), pf \in BOOLEAN :
          handleMessageCompleteReq(sf, np, pf)
    \/ \E ff \in 0..Len(mMessagesUnderwork) : handleMessagePoll(ff)
    \/ \E sf \in 0..Len(CurDeviceWorkers) : handleMessageFlush(sf)
    \/ handleMessageExit
    \/ \E p \in pollArmed : notifyPollEventReady(p)
    \/ \E p \in pollArmed : notifyPollEventError(p)
    \/ Work < MaxExitWork /\ flushSetFlag
    \/ flushRemove
    \/ flushSend
    \/ Work < MaxExitWork /\ requestExitAndWait
    \/ exitJoin

ExitSpec == Init /\ [][ExitNext]_vars /\ WF_vars(ControlStep) /\ WF_vars(exitJoin)

\* ------------------------------------------------------------------ claims
\* the events emitted, the requests retired and the calls of one step
NewEvents == SubSeq(events', Len(events) + 1, Len(events'))
Retired == Range(mMessagesUnderwork) \ Range(mMessagesUnderwork')
EventIds(es) == [i \in 1..Len(es) |-> es[i].reqId]
DoneCalls == {i \in 1..Len(calls) : calls[i].op = "notifyCaptureEvent"}
\* the step is the control loop handling the poll event at the head of mq
PollStep ==
    /\ mThreadRunning /\ mq # <<>> /\ Head(mq).id = "POLL"
    /\ lastMsg' = Head(mq)
\* the last step handled a poll event that signals a device error
LastWasErrorEvent ==
    lastMsg.id = "POLL" /\ lastMsg.polledDevices > 0 /\ ~lastMsg.active

\* C1: completion events are emitted in strictly increasing request-id order,
\* and when the event of a request is out no admitted request with a smaller
\* id is still in flight, whatever the order in which poll events (ready,
\* error, synthetic) reached the message queue.
C1_CompletionOrder ==
    /\ \A i, j \in 1..Len(events) : i < j => events[i].reqId < events[j].reqId
    /\ \A j \in 1..Len(events) : \A a \in Range(mMessagesUnderwork) :
            events[j].reqId < a

\* C1 witness: a ready event for the expected request retired a batch of at
\* least two requests, so a later request had been notified first.
C1_Witness ==
    /\ lastMsg.id = "POLL" /\ lastMsg.active
    /\ Cardinality(DoneCalls) >= 2
    /\ Len(events) >= 2

\* C2 (as claimed): without flush, start failure or error event, once every
\* submitted request has had its one ready or synthetic notification enqueued
\* and the message queue is drained, every request has been completed and
\* has left the in-flight set.
C2_NoDrop ==
    ( /\ nFlush = 0
      /\ mq = <<>> /\ pollArmed = {} /\ mMessagesPending = <<>>
      /\ \A r \in 1..(nextId - 1) : notified[r] \in {"ready", "synthetic"} )
    => ( /\ mMessagesUnderwork = <<>>
         /\ \A r \in 1..(nextId - 1) : \E i \in 1..Len(events) : events[i].reqId = r )

\* C3 (as claimed): the in-flight set never holds more requests than the
\* configured pipeline depth.
C3_DepthBound == Len(mMessagesUnderwork) <= pipelineDepth

\* C4: for every worker and request, prepareRun, run and postRun have each
\* been invoked at most once.
C4_OncePerPhase ==
    \A k \in DOMAIN phaseCount :
        /\ phaseCount[k].prepareRun <= 1
        /\ phaseCount[k].run <= 1
        /\ phaseCount[k].postRun <= 1

\* C4 witness: two workers have gone through all three phases of one request.
C4_Witness ==
    \E r \in ReqIds : \E w1, w2 \in WorkerNames :
        /\ w1 # w2
        /\ \A w \in {w1, w2} :
              /\ phaseCount[<<w, r>>].prepareRun = 1
              /\ phaseCount[<<w, r>>].run = 1
              /\ phaseCount[<<w, r>>].postRun = 1

\* C5: every request that leaves the in-flight set gets exactly one completion
\* event, handed to every registered listener, in the step that retires it;
\* no event is ever emitted for a request that is not in flight, no request
\* gets two events, and the drain loop never reads past the in-flight set.
C5_OneEventPerRetired ==
    /\ [](/\ ~ub
          /\ \A i, j \in 1..Len(events) :
                i # j => events[i].reqId # events[j].reqId)
    /\ [][ /\ Len(events') >= Len(events)
           /\ SubSeq(events', 1, Len(events)) = events
           /\ Len(NewEvents) = Cardinality(Retired)
           /\ Range(EventIds(NewEvents)) = Retired
           /\ \A i \in 1..Len(NewEvents) :
                 /\ NewEvents[i].reqId \in Range(mMessagesUnderwork)
                 /\ NewEvents[i].to = mListeners
                 /\ mListeners # {}
         ]_vars

\* C5 witness: a poll event for a request that had already been retired by a
\* device-error drain was handled and emitted nothing.
C5_Witness ==
    /\ lastMsg.id = "POLL"
    /\ calls = <<>>
    /\ \E i \in 1..Len(events) :
          /\ events[i].reqId = lastMsg.requestId
          /\ events[i].to # {}

\* the ids expected+1 .. expected+k that are all in the delay queue dq
DelayedRun(e, dq) ==
    {j \in ReqIds : \A m \in 1..j : (e + m) \in Range(dq)}

\* C6 (as claimed): when the expected id e is handled and e+1 .. e+k are in
\* the delay queue at any positions, the requests e .. e+k are all retired in
\* that step and exactly those k ids leave the delay queue.
C6_BatchAnyOrder ==
    [][ ( /\ PollStep
          /\ mMessagesUnderwork # <<>>
          /\ Head(mq).requestId = Head(mMessagesUnderwork)
          /\ DelayedRun(Head(mMessagesUnderwork), mDelayProcessRequest) # {} )
        => LET e == Head(mMessagesUnderwork)
               k == Cardinality(DelayedRun(e, mDelayProcessRequest))
           IN  /\ (e..(e + k)) \subseteq Retired
               /\ mDelayProcessRequest' =
                     SelectSeq(mDelayProcessRequest,
                               LAMBDA x : x \notin ((e + 1)..(e + k)))
      ]_vars

\* C7: a poll event whose id is greater than the expected id is appended to
\* the delay queue and has no other effect on the frame: nothing is retired,
\* no event is emitted and no worker is called.  Only a poll event for the
\* expected id emits events, beginning with the expected request; when 6 is
\* delayed and 5 is expected, handling 5 emits the events of 5 and then 6.
C7_DeferralHasNoFrameEffect ==
    [][ /\ ( /\ PollStep
             /\ mMessagesUnderwork # <<>>
             /\ Head(mMessagesUnderwork) < Head(mq).requestId )
           => /\ mDelayProcessRequest' =
                    Append(mDelayProcessRequest, Head(mq).requestId)
              /\ mMessagesUnderwork' = mMessagesUnderwork
              /\ mRequestToWorkMap' = mRequestToWorkMap
              /\ events' = events
              /\ phaseCount' = phaseCount
              /\ reqError' = reqError
              /\ calls' = <<>>
        /\ (events' # events)
           => /\ PollStep
              /\ mMessagesUnderwork # <<>>
              /\ Head(mq).requestId = Head(mMessagesUnderwork)
              /\ NewEvents[1].reqId = Head(mMessagesUnderwork)
        /\ ( /\ PollStep
             /\ mMessagesUnderwork # <<>>
             /\ Head(mq).requestId = Head(mMessagesUnderwork)
             /\ mDelayProcessRequest # <<>>
             /\ Head(mDelayProcessRequest) = Head(mMessagesUnderwork) + 1 )
           => /\ Len(NewEvents) >= 2
              /\ NewEvents[1].reqId = Head(mMessagesUnderwork)
              /\ NewEvents[2].reqId = Head(mMessagesUnderwork) + 1
      ]_vars

\* C7 witness: the last step deferred a poll event that is ahead of the
\* expected request.
C7_Witness ==
    /\ lastMsg.id = "POLL"
    /\ calls = <<>>
    /\ mMessagesUnderwork # <<>>
    /\ Head(mMessagesUnderwork) < lastMsg.requestId
    /\ mDelayProcessRequest # <<>>
    /\ mDelayProcessRequest[Len(mDelayProcessRequest)] = lastMsg.requestId

\* C8: a poll event whose id is smaller than the expected id is answered with
\* an error and changes neither the in-flight set nor the delay queue; a poll
\* event that finds the in-flight set empty changes nothing.
C8_StaleEventRejected ==
    [][ /\ ( /\ PollStep
             /\ mMessagesUnderwork # <<>>
             /\ Head(mMessagesUnderwork) > Head(mq).requestId )
           => /\ lastStatus' # OK
              /\ UNCHANGED <<mMessagesUnderwork, mDelayProcessRequest,
                             mRequestToWorkMap, events, phaseCount>>
              /\ calls' = <<>>
        /\ (PollStep /\ mMessagesUnderwork = <<>>)
           => /\ UNCHANGED <<mMessagesUnderwork, mDelayProcessRequest,
                             mRequestToWorkMap, mMessagesPending, events,
                             phaseCount, reqError>>
              /\ calls' = <<>>
      ]_vars

\* C8 witness: the last step rejected a poll event older than the expected
\* request.
C8_Witness ==
    /\ lastMsg.id = "POLL"
    /\ lastStatus = UNKNOWN_ERROR
    /\ mMessagesUnderwork # <<>>
    /\ Head(mMessagesUnderwork) > lastMsg.requestId

\* C9: a device-error poll event for the oldest in-flight request, when that
\* request has no input buffers, calls deviceError on every worker of the
\* current pipe configuration, notifies the error callback, flushes the
\* poller, and retires every in-flight request in order, each with its error
\* flag set.
C9_DeviceErrorDrainsAll ==
    [][ ( /\ PollStep
          /\ mMessagesUnderwork # <<>>
          /\ Head(mq).requestId = Head(mMessagesUnderwork)
          /\ Head(mq).polledDevices > 0 /\ ~Head(mq).active
          /\ ~reqInput[Head(mMessagesUnderwork)] )
        => LET dw == CurDeviceWorkers
               id == Head(mq).requestId
           IN  /\ Len(calls') >= Len(dw) + 2
               /\ \A i \in 1..Len(dw) :
                     calls'[i] = Call("deviceError", dw[i], id)
               /\ mErrCb /\ calls'[Len(dw) + 1].op = "errCb"
               /\ calls'[Len(dw) + 2].op = "pollerFlush"
               /\ pollArmed' = {}
               /\ mMessagesUnderwork' = <<>>
               /\ EventIds(NewEvents) = mMessagesUnderwork
               /\ \A i \in 1..Len(NewEvents) :
                     /\ NewEvents[i].error
                     /\ reqError'[NewEvents[i].reqId]
      ]_vars

\* C9 witness: the last step handled a device error, notified the error
\* callback and retired at least two requests with the error flag.
C9_Witness ==
    /\ LastWasErrorEvent
    /\ \E i \in 1..Len(calls) : calls[i].op = "errCb"
    /\ \E i \in 1..Len(calls) : calls[i].op = "deviceError"
    /\ Cardinality(DoneCalls) >= 2
    /\ mMessagesUnderwork = <<>>
    /\ events[Len(events)].error /\ events[Len(events) - 1].error

\* C10 (as claimed): every error poll event for an in-flight request without
\* input buffers, oldest or not, notifies the error callback when it is
\* handled, and that request is completed with its error flag set.
C10_EveryErrorReported ==
    \A r \in ReqIds :
        ( /\ LastWasErrorEvent
          /\ lastMsg.requestId = r
          /\ ~reqInput[r]
          /\ \/ r \in Range(mMessagesUnderwork)
             \/ \E i \in DoneCalls : calls[i].req = r )
        => /\ \E i \in 1..Len(calls) : calls[i].op = "errCb"
           /\ \A i \in 1..Len(events) :
                 events[i].reqId = r => events[i].error

\* C11 (as claimed): a worker stage failure sets the error flag of the request
\* that owns the stage only: when no device error is signalled, a request
\* retired in a batch is completed with its error flag set only if its flag
\* was set before or one of its own workers failed.
C11_FailureScopedToOwner ==
    [][ ( /\ PollStep
          /\ ~(Head(mq).polledDevices > 0 /\ ~Head(mq).active) )
        => \A i \in 1..Len(NewEvents) :
              NewEvents[i].error
              => \/ reqError[NewEvents[i].reqId]
                 \/ NewEvents[i].reqId \in stageFailed'
      ]_vars

\* C12 (as claimed): after a flush message has been handled, whatever its
\* outcome, the worker, pollable-worker and node lists of every pipe
\* configuration and the list of listener workers are empty.
C12_FlushClearsWorkers ==
    lastMsg.id = "FLUSH"
    => /\ \A p \in DOMAIN mPipeConfigs : mPipeConfigs[p] = EmptyPipe
       /\ mListenerDeviceWorkers = <<>>

\* poll messages of the Poller thread in a queue (synthetic ones carry no
\* polled device)
PollerMsgs(q) == SelectSeq(q, LAMBDA m : m.id = "POLL" /\ m.polledDevices > 0)

\* C13 (as claimed): while the flushing flag is set no notification of the
\* Poller thread, ready or error, is put on the message queue, and no poll
\* message of the Poller thread is handled by the control loop.
C13_FlushSilencesPoller ==
    [][ mFlushing
        => /\ Len(PollerMsgs(mq')) <= Len(PollerMsgs(mq))
           /\ ~(PollStep /\ Head(mq).polledDevices > 0)
      ]_vars

C21_FailingHandlerKeepsLoop ==
    /\ [][ (lastMsg' # NoMsg /\ lastMsg'.id # "EXIT")
           => /\ mq # <<>>
              /\ lastMsg' = Head(mq)
              /\ mThreadRunning'
              /\ SubSeq(mq', 1, Len(mq) - 1) = Tail(mq)
              /\ (lastMsg'.id = "FLUSH" => flushPc' = "idle")
              /\ (lastMsg'.id = "POLL" => ~pollerBlocked')
         ]_vars
    /\ ( /\ lastMsg # NoMsg /\ lastMsg.id # "EXIT"
         /\ lastStatus # OK
         /\ mq # <<>> )
       ~> (mq = <<>> \/ ~mThreadRunning)

\* C21 witness: after the handler of an earlier message had failed on a
\* worker call, the loop handled a later message with success.
C21_Witness ==
    /\ nFail > 0
    /\ lastMsg # NoMsg /\ lastMsg.id # "EXIT"
    /\ lastStatus = OK
    /\ mThreadRunning

\* the workers on which the calls cs invoked configure()
ConfigureCalled(cs) == {cs[i].worker : i \in {j \in 1..Len(cs) : cs[j].op = "configure"}}

\* C22 (as claimed): when configure() fails for a worker constructed by
\* createProcessingTasks, the one configured in advance included, configStreams
\* returns an error; after a successful configStreams every constructed
\* worker has been configured with success.
C22_ConfigureFailureIsFatal ==
    [][ \A in \in CfgInputs : \A f \in ConfigFailures :
            ConfigStreams(in, f)
            => LET t == createProcessingTasks(in, f)
               IN  /\ (t.cfgFailed # {}) => lastStatus' # OK
                   /\ (lastStatus' = OK)
                      => Range(mListenerDeviceWorkers')
                            \subseteq (ConfigureCalled(calls') \ t.cfgFailed)
      ]_vars

\* the workers and nodes held by the pipe configurations ps
PipeContents(ps) ==
    UNION {Range(ps[p].deviceWorkers) \cup Range(ps[p].pollableWorkers)
           \cup Range(ps[p].nodes) : p \in DOMAIN ps}

\* C23 (as claimed): after a configStreams call that fails at any step, the
\* pipe configurations hold no worker and no node other than those the
\* failed pass itself constructed: nothing built by an earlier configuration
\* survives.
C23_FailedConfigLeavesNoStaleWorkers ==
    [][ \A in \in CfgInputs : \A f \in ConfigFailures :
            (ConfigStreams(in, f) /\ lastStatus' # OK)
            => PipeContents(mPipeConfigs') \subseteq BuiltWorkers(in, f)
      ]_vars

\* the calls of the drain loop among the calls cs, in order
RetireOps == <<"asyncPollDone", "run", "postRun", "notifyCaptureEvent">>
DrainCalls(cs) == SelectSeq(cs, LAMBDA c : c.op \in Range(RetireOps))
PhaseRank(op) ==
    IF op = "asyncPollDone" THEN 1 ELSE IF op = "run" THEN 2
    ELSE IF op = "postRun" THEN 3 ELSE 4
\* the workers on which the calls cs invoked op for request r, in order
WorkersCalled(cs, op, r) ==
    LET sel == SelectSeq(cs, LAMBDA c : c.op = op /\ c.req = r)
    IN  [i \in 1..Len(sel) |-> sel[i].worker]

\* C24: for each request retired in a batch, asyncPollDone is called on every
\* worker bound to it, then run on every bound worker, then postRun on every
\* bound worker, each in binding order and on all bound workers whether or
\* not a call failed; its completion event follows its last postRun and it
\* leaves the in-flight set in that step; every call for a request precedes
\* every call for the next request of the batch (stated on consecutive
\* calls: the order by request and phase is transitive).
C24_PhaseOrder ==
    [][ PollStep
        => LET dc == DrainCalls(calls')
           IN  /\ {dc[i].req : i \in 1..Len(dc)} = Retired
               /\ \A r \in Retired :
                     /\ \A op \in {"asyncPollDone", "run", "postRun"} :
                           WorkersCalled(dc, op, r) = BoundWorkers(r)
                     /\ Len(WorkersCalled(dc, "notifyCaptureEvent", r)) = 1
               /\ \A i \in 1..(Len(dc) - 1) :
                     \/ dc[i].req < dc[i + 1].req
                     \/ /\ dc[i].req = dc[i + 1].req
                        /\ PhaseRank(dc[i].op) <= PhaseRank(dc[i + 1].op)
               /\ EventIds(NewEvents) = SubSeq(mMessagesUnderwork, 1, Len(NewEvents))
               /\ Len(NewEvents) = Cardinality(Retired)
      ]_vars

\* C24 witness: the last step retired a batch of two requests, each bound to
\* two workers, and a worker call failed in it.
C24_Witness ==
    /\ lastMsg.id = "POLL"
    /\ lastStatus = WORKER_ERROR
    /\ Cardinality(DoneCalls) = 2
    /\ \A i \in DoneCalls :
          Len(WorkersCalled(calls, "postRun", calls[i].req)) = 2

\* the workers on which the calls cs invoked op, in order
WorkersOf(cs, op) ==
    LET sel == SelectSeq(cs, LAMBDA c : c.op = op)
    IN  [i \in 1..Len(sel) |-> sel[i].worker]
\* position of the first call of op in cs (Len(cs) + 1: none)
FirstCall(cs, op) ==
    IF \E i \in 1..Len(cs) : cs[i].op = op
    THEN CHOOSE i \in 1..Len(cs) :
            cs[i].op = op /\ \A j \in 1..(i - 1) : cs[j].op # op
    ELSE Len(cs) + 1

\* C25: startWorker is called only while the first request after a
\* configStreams is admitted, on the workers of the current pipe
\* configuration in list order and before any prepareRun; a kickstart that
\* reached the last worker with success clears mFirstRequest, after which no
\* worker is started until configStreams sets it again; a failed kickstart
\* stops at the failing worker, calls no prepareRun and leaves mFirstRequest
\* set, so the next admitted request starts the workers again.
C25_KickstartOncePerConfig ==
    [][ LET sw == WorkersOf(calls', "startWorker")
            dw == CurDeviceWorkers
        IN  /\ (sw # <<>>)
               => /\ lastMsg'.id = "COMPLETE_REQ"
                  /\ mFirstRequest
                  /\ sw = SubSeq(dw, 1, Len(sw))
                  /\ FirstCall(calls', "prepareRun") > Len(sw)
                  /\ \A i \in 1..Len(sw) : calls'[i].op = "startWorker"
            /\ (lastMsg'.id = "COMPLETE_REQ" /\ mFirstRequest)
               => \/ /\ sw = dw
                     /\ ~mFirstRequest'
                     /\ (dw # <<>> => WorkersOf(calls', "prepareRun") # <<>>)
                  \/ /\ sw # <<>>
                     /\ WorkersOf(calls', "prepareRun") = <<>>
                     /\ mFirstRequest'
                     /\ lastStatus' # OK
            /\ (lastMsg'.id = "COMPLETE_REQ" /\ ~mFirstRequest)
               => (sw = <<>> /\ ~mFirstRequest')
            /\ (~mFirstRequest /\ mFirstRequest') => nConfig' = nConfig + 1
            /\ (lastMsg'.id # "COMPLETE_REQ") => sw = <<>>
      ]_vars

\* C25 witness: the kickstart of request 1 failed, and the admission of
\* request 2 started every worker of a pipe configuration with two workers
\* and went on to prepareRun.
C25_Witness ==
    /\ lastMsg.id = "COMPLETE_REQ" /\ lastMsg.requestId = 2
    /\ ~mFirstRequest
    /\ reqError[1] /\ 1 \in Range(mMessagesUnderwork)
    /\ 1 \notin DOMAIN mRequestToWorkMap
    /\ Len(WorkersOf(calls, "startWorker")) >= 2
    /\ WorkersOf(calls, "startWorker") = CurDeviceWorkers
    /\ WorkersOf(calls, "prepareRun") # <<>>

\* C26: when a request with input buffers is admitted and the current pipe
\* configuration has a worker without a node, the workers up to that worker
\* get prepareRun and those behind it do not, that worker is the only one
\* bound to the request, exactly one poll message with the id of the request
\* and no polled device is appended to the message queue, and no wait is
\* armed at the Poller; the handling of a poll message without polled
\* devices calls no deviceError, no error callback and no Poller flush, and
\* sets no error flag unless a worker call fails.
C26_InputWorkerStopsAdmission ==
    [][ /\ ( /\ lastMsg'.id = "COMPLETE_REQ"
             /\ reqInput[lastMsg'.requestId]
             /\ FirstNodeless(CurDeviceWorkers, 1) > 0
             /\ ~mFirstRequest' )
           => LET r == lastMsg'.requestId
                  dw == CurDeviceWorkers
                  k == FirstNodeless(dw, 1)
              IN  /\ mRequestToWorkMap'[r] = <<dw[k]>>
                  /\ WorkersOf(calls', "prepareRun") = SubSeq(dw, 1, k)
                  /\ mq' = Append(Tail(mq), PollMsg(r, 0, 0, FALSE))
                  /\ pollArmed' = pollArmed
                  /\ mPipeConfigs'[mCurPipeConfig].nodes = <<>>
        /\ (PollStep /\ Head(mq).polledDevices = 0)
           => /\ \A i \in 1..Len(calls') :
                    calls'[i].op \notin {"deviceError", "errCb", "pollerFlush"}
              /\ pollArmed' = pollArmed
              /\ (lastStatus' = OK)
                 => \A i \in 1..Len(NewEvents) :
                       NewEvents[i].error => reqError[NewEvents[i].reqId]
      ]_vars

\* C26 witness: the synthetic poll message of a request with input buffers
\* was handled; the request was retired without error after run and postRun
\* of the input worker, while the pipe configuration has a second worker
\* that was never prepared for it.
C26_Witness ==
    /\ lastMsg.id = "POLL" /\ lastMsg.polledDevices = 0
    /\ reqInput[lastMsg.requestId]
    /\ WorkersOf(calls, "postRun") = <<"IN">>
    /\ events # <<>>
    /\ events[Len(events)] = DoneEvent(lastMsg.requestId, FALSE)
    /\ phaseCount[<<"VIDEO", lastMsg.requestId>>].prepareRun = 0
    /\ "VIDEO" \in Range(CurDeviceWorkers)

\* C27: for every admitted request without input buffers the workers bound
\* to it are exactly the pollable workers of the current pipe configuration
\* whose needPolling() is true, in list order; when that list is not empty
\* one wait is armed at the Poller with the id of the request, the timeout
\* 3000 and the nodes of exactly those workers, also when a prepareRun
\* failed; when it is empty no wait is armed.
C27_WaitRequestContents ==
    [][ \A sf \in 0..Len(CurDeviceWorkers) :
        \A np \in NeedPollingChoices(CurPollableWorkers) :
        \A pf \in BOOLEAN :
            ( /\ handleMessageCompleteReq(sf, np, pf)
              /\ ~reqInput[Head(mq).requestId]
              /\ ~mFirstRequest' )
            => LET r == Head(mq).requestId
                   polled == SelectSeq(CurPollableWorkers, LAMBDA w : w \in np)
               IN  /\ mRequestToWorkMap'[r] = polled
                   /\ (lastStatus' # OK) = pf
                   /\ IF polled = <<>>
                      THEN pollArmed' = pollArmed
                      ELSE /\ pollArmed' \ pollArmed =
                                {[reqId |-> r, timeout |-> 3000, nodes |-> polled]}
                           /\ pollArmed \subseteq pollArmed'
      ]_vars

\* C27 witness: a request without input buffers was admitted although a
\* prepareRun failed, and a wait on the two nodes of its bound workers is
\* armed for it.
C27_Witness ==
    /\ lastMsg.id = "COMPLETE_REQ"
    /\ lastStatus = WORKER_ERROR
    /\ ~mFirstRequest
    /\ ~reqInput[lastMsg.requestId]
    /\ Len(BoundWorkers(lastMsg.requestId)) = 2
    /\ [reqId |-> lastMsg.requestId, timeout |-> 3000,
        nodes |-> BoundWorkers(lastMsg.requestId)] \in pollArmed

\* C28: the pending queue is empty before and after the handling of every
\* message; the handling of a request message admits exactly the request it
\* carries, at the tail of the in-flight set, and no other step adds to the
\* in-flight set: requests enter it in the order of their messages.
C28_OneAdmissionPerMessage ==
    /\ [](mMessagesPending = <<>>)
    /\ [][ /\ (lastMsg'.id = "COMPLETE_REQ")
              => /\ lastMsg' = Head(mq)
                 /\ mMessagesUnderwork' =
                       Append(mMessagesUnderwork, Head(mq).requestId)
           /\ (lastMsg'.id # "COMPLETE_REQ")
              => \E n \in 0..Len(mMessagesUnderwork) :
                    mMessagesUnderwork' =
                       SubSeq(mMessagesUnderwork, n + 1, Len(mMessagesUnderwork))
           /\ \A i, j \in 1..Len(mq') :
                 ( /\ i < j
                   /\ mq'[i].id = "COMPLETE_REQ" /\ mq'[j].id = "COMPLETE_REQ"
                   /\ \E k \in 1..Len(mq) : mq[k] = mq'[j] )
                 => \E k1, k2 \in 1..Len(mq) :
                       k1 < k2 /\ mq[k1] = mq'[i] /\ mq[k2] = mq'[j]
         ]_vars

\* C28 witness: the last step admitted the request of its message behind two
\* requests that were admitted before it.
C28_Witness ==
    /\ lastMsg.id = "COMPLETE_REQ"
    /\ Len(mMessagesUnderwork) = 3
    /\ mMessagesUnderwork[3] = lastMsg.requestId
    /\ mMessagesPending = <<>>

\* C29: the handling of a flush message first flushes the Poller, which
\* drops every outstanding wait, then calls stopWorker on the workers of the
\* current pipe configuration in list order; at the first failing stopWorker
\* no later worker is stopped and the flush is answered with the failure,
\* otherwise every worker is stopped and the flush is answered with success.
C29_FlushStopOrder ==
    [][ \A sf \in 0..Len(CurDeviceWorkers) :
            handleMessageFlush(sf)
            => LET dw == CurDeviceWorkers
                   n == IF sf > 0 THEN sf ELSE Len(dw)
               IN  /\ calls' = <<Call("pollerFlush", "", 0)>>
                                \o CallsOn("stopWorker", SubSeq(dw, 1, n), 0)
                   /\ pollArmed' = {}
                   /\ (lastStatus' # OK) = (sf > 0)
                   /\ lastMsg' = FlushMsg
                   /\ flushPc' = "idle"
                   /\ started' \cap Range(dw)
                        = (started \cap Range(dw))
                          \ {dw[i] : i \in 1..(IF sf > 0 THEN sf - 1 ELSE Len(dw))}
      ]_vars

\* C29 witness: a flush was answered with a failure after the Poller was
\* flushed and stopWorker was called on the first worker only, of two.
C29_Witness ==
    /\ lastMsg.id = "FLUSH"
    /\ lastStatus = WORKER_ERROR
    /\ calls = <<Call("pollerFlush", "", 0),
                 Call("stopWorker", CurDeviceWorkers[1], 0)>>
    /\ Len(CurDeviceWorkers) = 2

\* C30: the front of the in-flight set is never read when the set is empty:
\* no step of startProcessing has read past it, and whenever the set is not
\* empty the batch size that a poll event for its front would compute from
\* the delay queue (one plus the leading entries front+1, front+2, ...) is at
\* most the size of the set, every such entry being a request in flight
\* behind the front; the device-error path takes the size itself.
C30_BatchWithinInFlight ==
    /\ ~ub
    /\ (mMessagesUnderwork # <<>>)
       => LET front == Head(mMessagesUnderwork)
              num == DrainDelayQueue(mDelayProcessRequest, front).num
          IN  /\ num <= Len(mMessagesUnderwork)
              /\ \A errPath \in BOOLEAN :
                    ProcessReqNum(num, errPath, mMessagesUnderwork)
                       <= Len(mMessagesUnderwork)
              /\ \A i \in 1..(num - 1) :
                    mDelayProcessRequest[i] = mMessagesUnderwork[i + 1]

\* C30 witness: a poll event for a request that a device-error drain had
\* retired found the in-flight set empty while the delay queue still held an
\* id, and was answered without a read of the front.
C30_Witness ==
    /\ lastMsg.id = "POLL"
    /\ lastStatus = OK
    /\ mMessagesUnderwork = <<>>
    /\ mDelayProcessRequest # <<>>
    /\ calls = <<>>
    /\ \E i \in 1..Len(events) :
          events[i].reqId = lastMsg.requestId /\ events[i].error

\* C31 (as claimed): at the end of the step that admits a request, the
\* request is in the in-flight set and either a wait with its id is armed at
\* the Poller or a poll message with its id is in the message queue.
C31_AdmittedHasNotification ==
    [][ (lastMsg'.id = "COMPLETE_REQ")
        => LET r == lastMsg'.requestId
           IN  /\ r \in Range(mMessagesUnderwork')
               /\ \/ \E p \in pollArmed' : p.reqId = r
                  \/ \E i \in 1..Len(mq') :
                        mq'[i].id = "POLL" /\ mq'[i].requestId = r
      ]_vars

\* C32 (as claimed): once a flush message has been handled, the handling of
\* a poll message calls asyncPollDone, run, postRun or deviceError on no
\* worker that the flush has stopped (a worker called is one that was
\* started and not stopped since).
C32_NoCallsAfterFlush ==
    [][ (PollStep /\ nFlush > 0 /\ flushPc = "idle")
        => \A i \in 1..Len(calls') :
              calls'[i].op \in {"asyncPollDone", "run", "postRun", "deviceError"}
              => calls'[i].worker \in started
      ]_vars

\* C33 (as claimed): a successful configStreams that follows a handled flush
\* leaves the in-flight set, the delay queue and the request-to-worker table empty.
\* (configStreams is called with no message queued and no wait armed, and
\* nothing but the handling of a message changes the three: they are at the
\* admission of the first request what configStreams left.)
C33_FlushConfigLeavesNoRequest ==
    [][ (nConfig' = nConfig + 1 /\ nFlush > 0 /\ flushPc = "idle" /\ configured')
        => /\ mMessagesUnderwork' = <<>>
           /\ mDelayProcessRequest' = <<>>
           /\ mRequestToWorkMap' = <<>>
      ]_vars

\* C34 (as claimed): every id in the delay queue is the id of a request in
\* the in-flight set and greater than the id of the oldest in-flight request,
\* no id occurs twice, and the delay queue is not longer than the in-flight
\* set.
C34_DelayWithinInFlight ==
    /\ \A i \in 1..Len(mDelayProcessRequest) :
          /\ mDelayProcessRequest[i] \in Range(mMessagesUnderwork)
          /\ mDelayProcessRequest[i] > Head(mMessagesUnderwork)
    /\ \A i, j \in 1..Len(mDelayProcessRequest) :
          mDelayProcessRequest[i] = mDelayProcessRequest[j] => i = j
    /\ Len(mDelayProcessRequest) <= Len(mMessagesUnderwork)

\* the mapper's input and output as the claims name them
BlobNum == Len(mActiveStreams.blobStreams)
YuvNum == Len(mActiveStreams.yuvStreams)
StreamNum == BlobNum + YuvNum
\* blob first, then the yuv group
Available == mActiveStreams.blobStreams \o mActiveStreams.yuvStreams
Mapped == mapStatus \notin {"none", "classified"}
Area(st) == st.width * st.height
VideoStream == mStreamNodeMapping["VIDEO"]
PreviewStream == mStreamNodeMapping["VF_PREVIEW"]

\* C15: the mapper fails for more than one blob stream, for zero streams and
\* for three or more streams that are not one blob plus at least two yuv; it
\* succeeds for one stream, for two streams with at most one blob, and for one
\* blob plus two or more yuv streams.
C15_AcceptedCombinations ==
    Mapped
    => /\ ( \/ BlobNum > 1
            \/ StreamNum = 0
            \/ (StreamNum >= 3 /\ ~(BlobNum = 1 /\ YuvNum >= 2)) )
          => mapStatus # OK
       /\ ( \/ StreamNum = 1
            \/ (StreamNum = 2 /\ BlobNum <= 1)
            \/ (BlobNum = 1 /\ YuvNum >= 2) )
          => mapStatus = OK

\* C15 witness: three yuv streams and no blob stream were refused.
C15_Witness ==
    /\ Mapped
    /\ BlobNum = 0 /\ YuvNum = 3
    /\ mapStatus = UNKNOWN_ERROR

\* C16: for every accepted combination the stream of the video node has the
\* largest area of the available streams, and is the earliest of them in
\* availableStreams order (blob first, then the yuv group with the
\* implementation-defined streams in front); with two streams the other one
\* is the stream of the preview node.
C16_VideoIsLargest ==
    /\ (mapStatus # "none")
       => \A i, j \in 1..YuvNum :
             ( /\ mActiveStreams.yuvStreams[i].format = "YCbCr_420_888"
               /\ mActiveStreams.yuvStreams[j].format = "IMPLEMENTATION_DEFINED" )
             => j < i
    /\ (mapStatus = OK)
       => /\ \E k \in 1..Len(Available) :
                /\ Available[k] = VideoStream
                /\ \A j \in 1..Len(Available) :
                      /\ Area(Available[j]) <= Area(VideoStream)
                      /\ j < k => Area(Available[j]) < Area(VideoStream)
          /\ (StreamNum = 2)
             => /\ "VF_PREVIEW" \in DOMAIN mStreamNodeMapping
                /\ PreviewStream \in Range(Available) \ {VideoStream}

\* C16 witness: three or more streams were accepted, two of them share the
\* largest area, and a yuv stream is the video stream.
C16_Witness ==
    /\ mapStatus = OK
    /\ StreamNum >= 3
    /\ VideoStream.format # "BLOB"
    /\ \E st \in Range(Available) \ {VideoStream} : Area(st) = Area(VideoStream)

ScenarioStreams ==
    /\ Len(activeStreams) = 4
    /\ \A i \in 1..4 : activeStreams[i].type = "OUTPUT"
    /\ activeStreams[1].format = "BLOB"
    /\ \A i \in 2..4 : activeStreams[i].format = "YCbCr_420_888"
    /\ <<activeStreams[1].width, activeStreams[1].height>> = <<4000, 3000>>
    /\ \A i \in 2..3 :
          <<activeStreams[i].width, activeStreams[i].height>> = <<1920, 1080>>
    /\ <<activeStreams[4].width, activeStreams[4].height>> = <<640, 480>>

\* C18 (as claimed): for the scenario streams the video node gets the first
\* yuv stream of largest area among the yuv streams, not the blob stream.
C18_ScenarioVideoIsYuv ==
    (ScenarioStreams /\ Mapped)
    => /\ mapStatus = OK
       /\ VideoStream = activeStreams[2]

\* |w/h - w'/h'| of two streams
AspectDiff(s1, s2) == RatioDiff(streamSizeRatio(s1), streamSizeRatio(s2))

\* C19 (as claimed): with three or more streams every listener listens to
\* the node whose stream is closer to it in aspect ratio, and only on a tie
\* of the two differences does the area decide: equal to video gives video,
\* else equal to preview gives preview, else the node of larger area.
C19_ListenerByRatio ==
    (mapStatus = OK /\ StreamNum >= 3)
    => \A l \in DOMAIN mStreamListenerMapping :
          LET dp == AspectDiff(l, PreviewStream)
              dv == AspectDiff(l, VideoStream)
              node == mStreamListenerMapping[l]
          IN  /\ (~RatioDiffTie(dp, dv) /\ RatioDiffLess(dp, dv))
                 => node = "VF_PREVIEW"
              /\ (~RatioDiffTie(dp, dv) /\ RatioDiffLess(dv, dp))
                 => node = "VIDEO"
              /\ RatioDiffTie(dp, dv)
                 => node = (IF Area(l) = Area(VideoStream) THEN "VIDEO"
                            ELSE IF Area(l) = Area(PreviewStream) THEN "VF_PREVIEW"
                            ELSE IF Area(PreviewStream) > Area(VideoStream)
                            THEN "VF_PREVIEW" ELSE "VIDEO")

====
